---------------------------- MODULE Spec2Model ----------------------------
(***************************************************************************)
(* Call-report rendering pipeline of src/app.py: text sanitizer,           *)
(* conversation normalizer, transcript layout, delivery dispatcher and     *)
(* the emailing endpoints.                                                 *)
(*                                                                         *)
(* Text is a sequence of Unicode codepoints (Python str), so that ord(),   *)
(* slicing, str.replace, str.capitalize, str.split and "\n".join are       *)
(* computed the way CPython computes them.                                 *)
(***************************************************************************)
EXTENDS Integers, Sequences, FiniteSets, TLC

VARIABLES
    \* ---- text sanitizer (clean_text_for_pdf, safe_text_length) ----
    text,           \* argument of clean_text_for_pdf / safe_text_length
    max_length,     \* argument max_length of safe_text_length
    cleaned,        \* clean_text_for_pdf(text)
    recleaned,      \* clean_text_for_pdf(clean_text_for_pdf(text))
    truncated,      \* safe_text_length(text, max_length)
    tpc,            \* which of the calls above has been made
    \* ---- conversation normalizer and transcript layout ----
    transcript_object,  \* call.transcript_object: sequence of [role, content]
    conversation,       \* concatenate_conversation(transcript_object)
    summary,            \* get_conversation_summary(transcript_object)
    bubbles,            \* bubbles drawn by add_conversation_modern, in order
    cdone,              \* which of the three calls above have returned
    \* ---- delivery dispatcher and endpoints ----
    EMAIL_CONFIG,       \* the module-level configuration dict
    files,              \* paths that exist in tempfile.gettempdir()
    clock,              \* datetime.now() truncated to the second
    last,               \* what the most recent request did and answered
    issued,             \* call ids that were given a path of this second
    \* ---- report document (generate_pdf_report) ----
    report_in,          \* arguments of generate_pdf_report and what the
                        \* PDF library does to each draw
    report,             \* what generate_pdf_report drew, wrote and raised
    \* ---- page cursor (ModernPDFReport._add_message_bubble) ----
    cursor,             \* page number and get_y() of the document
    rect                \* the background rectangle of the last bubble

textVars == <<text, max_length, cleaned, recleaned, truncated, tpc>>
convVars == <<transcript_object, conversation, summary, bubbles, cdone>>

epVars == <<EMAIL_CONFIG, files, clock, last, issued>>

cursorVars == <<cursor, rect>>
docVars == <<report_in, report, cursorVars>>

vars == <<textVars, convVars, epVars, docVars>>

(***************************************************************************)
(* Bounds of the model.                                                    *)
(***************************************************************************)
MaxTextLen == 4     \* longest input text of the sanitizer
MaxMaxLength == 5   \* largest max_length handed to safe_text_length
MaxTurns == 2       \* longest transcript_object
MaxClock == 1       \* seconds the clock can advance
MaxInaudible == 5   \* largest inaudible_speeches handed to the scorer

(***************************************************************************)
(* Python str primitives.                                                  *)
(***************************************************************************)
Min(a, b) == IF a <= b THEN a ELSE b
Max(a, b) == IF a >= b THEN a ELSE b

\* The function f on 1..n as a sequence value.
AsSeq(f) == SubSeq(f, 1, Len(f))

\* s[:k] with Python's slice semantics: a negative k counts from the end.
PySliceTo(s, k) ==
    IF k >= 0 THEN SubSeq(s, 1, Min(k, Len(s)))
              ELSE SubSeq(s, 1, Max(0, Len(s) + k))

\* s[k:] for k >= 0.
PySliceFrom(s, k) == SubSeq(s, Min(k, Len(s)) + 1, Len(s))

\* s.startswith(prefix)
StartsWith(s, prefix) ==
    /\ Len(prefix) <= Len(s)
    /\ SubSeq(s, 1, Len(prefix)) = prefix

\* The positions at which old occurs in s.
Occurrences(s, old) ==
    {k \in 1..(Len(s) - Len(old) + 1) : SubSeq(s, k, k + Len(old) - 1) = old}

\* str.replace(old, new) for a non-empty old: leftmost, non-overlapping.
RECURSIVE StrReplace(_, _, _)
StrReplace(s, old, new) ==
    IF Occurrences(s, old) = {} THEN s
    ELSE LET k == CHOOSE i \in Occurrences(s, old) :
                      \A j \in Occurrences(s, old) : i <= j
         IN  SubSeq(s, 1, k - 1) \o new \o
             StrReplace(SubSeq(s, k + Len(old), Len(s)), old, new)

\* The concatenation of a sequence of texts.
RECURSIVE Flatten(_)
Flatten(ss) ==
    IF ss = <<>> THEN <<>>
    ELSE IF Len(ss) = 1 THEN ss[1]
    ELSE LET h == Len(ss) \div 2
         IN  Flatten(SubSeq(ss, 1, h)) \o Flatten(SubSeq(ss, h + 1, Len(ss)))

\* Characters matched by \s in a str pattern and removed by str.strip(),
\* within the ASCII range: space, \t \n \v \f \r and \x1c..\x1f.
IsSpace(c) == c \in {32, 9, 10, 11, 12, 13, 28, 29, 30, 31}

\* The positions of the set keep, in increasing order.
Ascending(keep) ==
    AsSeq([j \in 1..Cardinality(keep) |->
              CHOOSE i \in keep : Cardinality({k \in keep : k <= i}) = j])

\* Variant: only pairs of whitespace characters are merged, in one pass
\* (re.sub(r'\s\s', ' ', s)).
CollapseWhitespace_PairsOnce(s) ==
    LET RunStart(i) == CHOOSE j \in 1..i :
                           /\ \A m \in j..i : IsSpace(s[m])
                           /\ (j = 1 \/ ~IsSpace(s[j - 1]))
        First(i) == IsSpace(s[i]) /\ (i - RunStart(i)) % 2 = 0
        Paired(i) == First(i) /\ i < Len(s) /\ IsSpace(s[i + 1])
        keep == Ascending({i \in 1..Len(s) : ~IsSpace(s[i]) \/ First(i)})
    IN  AsSeq([j \in 1..Len(keep) |->
                  IF Paired(keep[j]) THEN 32 ELSE s[keep[j]]])

\* re.sub(r'\s+', ' ', s): every maximal run of whitespace becomes one
\* space, i.e. the first character of a run is kept, as a space.
CollapseWhitespace(s) ==
    LET keep == Ascending({i \in 1..Len(s) : \/ ~IsSpace(s[i])
                                              \/ i = 1
                                              \/ ~IsSpace(s[i - 1])})
    IN  AsSeq([j \in 1..Len(keep) |->
                  IF IsSpace(s[keep[j]]) THEN 32 ELSE s[keep[j]]])

RECURSIVE LStrip(_)
LStrip(s) == IF s # <<>> /\ IsSpace(Head(s)) THEN LStrip(Tail(s)) ELSE s

RECURSIVE RStrip(_)
RStrip(s) ==
    IF s # <<>> /\ IsSpace(s[Len(s)]) THEN RStrip(SubSeq(s, 1, Len(s) - 1)) ELSE s

\* str.strip()
Strip(s) == LStrip(RStrip(s))

(***************************************************************************)
(* clean_text_for_pdf                                                      *)
(***************************************************************************)

\* The dict literal char_replacements, in insertion order, as Python parses
\* it.  The quote characters of the first four entries are plain ASCII in
\* the source, so ''' opens a triple-quoted string that runs to the next
\* line: the first key is a 35-character string, and the two '"' entries
\* map the double quote to itself.
char_replacements == <<
    <<<<58, 32, 34, 39, 34, 44, 32, 32, 35, 32, 83, 109, 97, 114, 116, 32,
        113, 117, 111, 116, 101, 32, 108, 101, 102, 116, 10,
        32, 32, 32, 32, 32, 32, 32, 32>>, <<39>>>>,
    <<<<34>>, <<34>>>>,                                     \* '"' -> '"'
    <<<<8211>>, <<45>>>>,                                   \* en dash -> '-'
    <<<<8212>>, <<45>>>>,                                   \* em dash -> '-'
    <<<<8230>>, <<46, 46, 46>>>>,                           \* ellipsis -> '...'
    <<<<176>>, <<32, 100, 101, 103, 114, 101, 101, 115>>>>, \* degree -> ' degrees'
    <<<<169>>, <<40, 99, 41>>>>,                            \* (c)
    <<<<174>>, <<40, 82, 41>>>>,                            \* (R)
    <<<<8482>>, <<40, 84, 77, 41>>>>,                       \* (TM)
    <<<<8364>>, <<69, 85, 82>>>>,                           \* EUR
    <<<<163>>, <<71, 66, 80>>>>,                            \* GBP
    <<<<165>>, <<74, 80, 89>>>>,                            \* JPY
    <<<<167>>, <<83, 101, 99, 116, 105, 111, 110>>>>,       \* Section
    <<<<182>>, <<80, 97, 114, 97, 103, 114, 97, 112, 104>>>>, \* Paragraph
    <<<<8224>>, <<43>>>>,                                   \* dagger -> '+'
    <<<<8225>>, <<43, 43>>>>,                               \* double dagger -> '++'
    <<<<8226>>, <<42>>>>,                                   \* bullet -> '*'
    <<<<8240>>, <<32, 112, 101, 114, 32, 109, 105, 108, 108, 101>>>>, \* ' per mille'
    <<<<8249>>, <<60>>>>,                                   \* '<'
    <<<<8250>>, <<62>>>>,                                   \* '>'
    <<<<171>>, <<60, 60>>>>,                                \* '<<'
    <<<<187>>, <<62, 62>>>> >>                              \* '>>'

\* for unicode_char, ascii_replacement in char_replacements.items():
\*     text = text.replace(unicode_char, ascii_replacement)
\* Each replacement is computed (Len(replaced) >= 0) before the next one is
\* entered, so that the evaluation stays shallow.
RECURSIVE ApplyReplacements(_, _)
ApplyReplacements(s, i) ==
    IF i > Len(char_replacements) THEN s
    ELSE LET replaced == StrReplace(s, char_replacements[i][1],
                                    char_replacements[i][2])
         IN  IF Len(replaced) >= 0
             THEN ApplyReplacements(replaced, i + 1)
             ELSE replaced

\* unicodedata.normalize('NFD', .) of one character: the canonical
\* decompositions of the precomposed characters the model feeds in; every
\* other character of the model's alphabet has no canonical decomposition.
NFDChar(c) ==
    CASE c = 233 -> <<101, 769>>     \* e-acute -> e + combining acute
      [] c = 241 -> <<110, 771>>     \* n-tilde -> n + combining tilde
      [] c = 8490 -> <<75>>          \* KELVIN SIGN -> K
      [] OTHER -> <<c>>

NFD(s) == Flatten(AsSeq([i \in 1..Len(s) |-> NFDChar(s[i])]))

\* Variant: the else branch keeps the character instead of a space.
AllowedStep_KeepsOther(allowed_chars, char) == Append(allowed_chars, char)

\* The filter loop over the normalized text, allowed_chars being the
\* accumulator.
AllowedStep(allowed_chars, char) ==
    IF 32 <= char /\ char <= 126 THEN Append(allowed_chars, char)
    ELSE IF char \in {10, 13, 9} THEN Append(allowed_chars, char)
    ELSE IF allowed_chars # <<>> /\ allowed_chars[Len(allowed_chars)] # 32
         THEN Append(allowed_chars, 32)
         ELSE allowed_chars

\* for char in text: ... , run over s left to right from the accumulator
\* allowed_chars.  The text is halved and the accumulator of the first half
\* is computed (Len(left) >= 0) before the second half is entered, so that
\* the evaluation stays shallow on long texts.
RECURSIVE FilterAllowed(_, _)
FilterAllowed(allowed_chars, s) ==
    IF s = <<>> THEN allowed_chars
    ELSE IF Len(s) = 1 THEN AllowedStep(allowed_chars, s[1])
    ELSE LET h == Len(s) \div 2
             left == FilterAllowed(allowed_chars, SubSeq(s, 1, h))
         IN  IF Len(left) >= 0
             THEN FilterAllowed(left, SubSeq(s, h + 1, Len(s)))
             ELSE left

clean_text_for_pdf(t) ==
    IF t = <<>> THEN <<>>
    ELSE Strip(CollapseWhitespace(
             FilterAllowed(<<>>, NFD(ApplyReplacements(t, 1)))))

(***************************************************************************)
(* safe_text_length                                                        *)
(***************************************************************************)
Ellipsis == <<46, 46, 46>>      \* "..."

safe_text_length(t, maxlen) ==
    LET c == clean_text_for_pdf(t)
    IN  IF Len(c) <= maxlen THEN c
        ELSE PySliceTo(c, maxlen - 3) \o Ellipsis

(***************************************************************************)
(* Sanitizer specification: every text over TextAlphabet up to MaxTextLen  *)
(* characters, and the calls the callers make on it.                       *)
(***************************************************************************)

\* 'a', space, newline, degree sign (table entry with a leading space),
\* e-acute (decomposes under NFD), ellipsis (multi-character replacement),
\* a CJK character (no replacement, no decomposition).
TextAlphabet == {97, 32, 10, 176, 233, 8230, 20013}

RECURSIVE TextsUpTo(_)
TextsUpTo(n) ==
    IF n = 0 THEN {<<>>}
    ELSE LET shorter == TextsUpTo(n - 1)
         IN  shorter \cup
             {Append(s, c) : s \in {x \in shorter : Len(x) = n - 1},
                             c \in TextAlphabet}

NoText == <<-1>>    \* "not computed yet"

\* No request is being answered.
Idle == [endpoint |-> "none"]

\* The endpoint variables while a pure function is exercised on its own.
EndpointsIdle ==
    /\ EMAIL_CONFIG = [default_recipient |-> "idle"]
    /\ files = {}
    /\ clock = 0
    /\ last = Idle
    /\ issued = {}

\* No report has been asked for / generated.
NoReport == [generated |-> FALSE]

\* No rectangle drawn, no page begun.
NoRect == [page |-> 0, y |-> 0, h |-> 0, chars |-> 0]

CursorIdle ==
    /\ cursor = [page |-> 0, y |-> 0]
    /\ rect = NoRect

\* The report variables while another component is exercised on its own.
DocIdle ==
    /\ report_in = NoReport
    /\ report = NoReport
    /\ CursorIdle

NoSummary ==
    [total_exchanges |-> 0, user_messages |-> 0,
     agent_messages |-> 0, inaudible_speeches |-> 0]

\* The conversation variables while another component is exercised on its
\* own.
ConvIdle ==
    /\ transcript_object = <<>>
    /\ conversation = <<>>
    /\ summary = NoSummary
    /\ bubbles = <<>>
    /\ cdone = {}

InitText ==
    /\ ConvIdle
    /\ EndpointsIdle
    /\ DocIdle
    /\ text \in TextsUpTo(MaxTextLen)
    /\ max_length = -1
    /\ cleaned = NoText
    /\ recleaned = NoText
    /\ truncated = NoText
    /\ tpc = "input"

CallClean ==
    /\ tpc = "input"
    /\ cleaned' = clean_text_for_pdf(text)
    /\ tpc' = "cleaned"
    /\ UNCHANGED <<text, max_length, recleaned, truncated, convVars, epVars, docVars>>

CallCleanAgain ==
    /\ tpc = "cleaned"
    /\ recleaned' = clean_text_for_pdf(cleaned)
    /\ tpc' = "recleaned"
    /\ UNCHANGED <<text, max_length, cleaned, truncated, convVars, epVars, docVars>>

CallSafeTextLength ==
    /\ tpc = "cleaned"
    /\ \E L \in 0..MaxMaxLength :
        /\ max_length' = L
        /\ truncated' = safe_text_length(text, L)
    /\ tpc' = "truncated"
    /\ UNCHANGED <<text, cleaned, recleaned, convVars, epVars, docVars>>

NextText == CallClean \/ CallCleanAgain \/ CallSafeTextLength

SpecText == InitText /\ [][NextText]_vars

(***************************************************************************)
(* concatenate_conversation                                                *)
(***************************************************************************)
IsLower(c) == 97 <= c /\ c <= 122
IsUpper(c) == 65 <= c /\ c <= 90
ToUpper(c) == IF IsLower(c) THEN c - 32 ELSE c
ToLower(c) == IF IsUpper(c) THEN c + 32 ELSE c

LowerAll(s) == AsSeq([i \in 1..Len(s) |-> ToLower(s[i])])

\* str.capitalize() on ASCII text: first character upper-cased, every other
\* character lower-cased.
capitalize(s) ==
    IF s = <<>> THEN <<>> ELSE <<ToUpper(s[1])>> \o LowerAll(Tail(s))

\* sep.join(parts)
RECURSIVE Join(_, _)
Join(parts, sep) ==
    IF parts = <<>> THEN <<>>
    ELSE IF Len(parts) = 1 THEN parts[1]
    ELSE parts[1] \o sep \o Join(Tail(parts), sep)

ColonSpace == <<58, 32>>    \* ": "
Newline == <<10>>           \* "\n"

\* Variant: the last turn is not emitted.
concatenate_conversation_DropsLast(tr) ==
    Join(AsSeq([i \in 1..(Len(tr) - 1) |->
                    capitalize(tr[i].role) \o ColonSpace \o tr[i].content]),
         Newline)

concatenate_conversation(tr) ==
    Join(AsSeq([i \in 1..Len(tr) |->
                    capitalize(tr[i].role) \o ColonSpace \o tr[i].content]),
         Newline)

(***************************************************************************)
(* get_conversation_summary                                                *)
(***************************************************************************)
STR_user == <<117, 115, 101, 114>>                      \* "user"
STR_agent == <<97, 103, 101, 110, 116>>                 \* "agent"
InaudibleMarker ==                                      \* "(inaudible speech)"
    <<40, 105, 110, 97, 117, 100, 105, 98, 108, 101, 32,
      115, 112, 101, 101, 99, 104, 41>>

\* needle in haystack
Contains(haystack, needle) ==
    \E k \in 0..(Len(haystack) - Len(needle)) :
        SubSeq(haystack, k + 1, k + Len(needle)) = needle

\* [item for item in items if keep(item)], keep given as a set of indices
RECURSIVE SelectItems(_, _, _)
SelectItems(items, keep, i) ==
    IF i > Len(items) THEN <<>>
    ELSE IF i \in keep THEN <<items[i]>> \o SelectItems(items, keep, i + 1)
    ELSE SelectItems(items, keep, i + 1)

\* Variant: the marker is looked for in every turn, not only in user turns.
get_conversation_summary_AllRoles(tr) ==
    LET user_messages ==
            SelectItems(tr, {i \in 1..Len(tr) : tr[i].role = STR_user}, 1)
        agent_messages ==
            SelectItems(tr, {i \in 1..Len(tr) : tr[i].role = STR_agent}, 1)
        inaudible ==
            SelectItems(tr,
                {i \in 1..Len(tr) : Contains(tr[i].content, InaudibleMarker)}, 1)
    IN  [total_exchanges |-> Len(tr),
         user_messages |-> Len(user_messages),
         agent_messages |-> Len(agent_messages),
         inaudible_speeches |-> Len(inaudible)]

get_conversation_summary(tr) ==
    LET user_messages ==
            SelectItems(tr, {i \in 1..Len(tr) : tr[i].role = STR_user}, 1)
        agent_messages ==
            SelectItems(tr, {i \in 1..Len(tr) : tr[i].role = STR_agent}, 1)
        inaudible ==
            SelectItems(user_messages,
                {i \in 1..Len(user_messages) :
                     Contains(user_messages[i].content, InaudibleMarker)}, 1)
    IN  [total_exchanges |-> Len(tr),
         user_messages |-> Len(user_messages),
         agent_messages |-> Len(agent_messages),
         inaudible_speeches |-> Len(inaudible)]

(***************************************************************************)
(* ModernPDFReport.add_conversation_modern / _add_message_bubble           *)
(*                                                                         *)
(* A bubble is recorded as [sender, message]: the label and the text that  *)
(* are drawn.  Where on the page it is drawn does not decide whether it is *)
(* drawn: the page-break test of _add_message_bubble only moves the cursor.*)
(***************************************************************************)
STR_UserColon == <<85, 115, 101, 114, 58>>                          \* "User:"
STR_AgentColon == <<65, 103, 101, 110, 116, 58>>                    \* "Agent:"
STR_AssistantColon == <<65, 115, 115, 105, 115, 116, 97, 110, 116, 58>> \* "Assistant:"

BubbleMaxChars == 200      \* safe_text_length(message, 200)

\* s.split(sep) for a one-character sep: always at least one piece.
RECURSIVE Split(_, _)
Split(s, sep) ==
    IF \A i \in 1..Len(s) : s[i] # sep THEN <<s>>
    ELSE LET k == CHOOSE i \in 1..Len(s) :
                      s[i] = sep /\ \A j \in 1..(i - 1) : s[j] # sep
         IN  <<SubSeq(s, 1, k - 1)>> \o Split(SubSeq(s, k + 1, Len(s)), sep)

\* _add_message_bubble: the bubbles drawn so far, extended by this call.
\* A message that is blank after strip() draws nothing.
add_message_bubble(drawn, message, sender) ==
    IF Strip(message) = <<>> THEN drawn
    ELSE Append(drawn, [sender |-> sender,
                        message |-> safe_text_length(message, BubbleMaxChars)])

\* The body of the loop of add_conversation_modern for one line.
BubbleForLine(drawn, line) ==
    IF Strip(line) = <<>> THEN drawn
    ELSE IF StartsWith(line, STR_UserColon)
         THEN add_message_bubble(drawn, Strip(PySliceFrom(line, 5)), "USER")
    ELSE IF StartsWith(line, STR_AgentColon)
         THEN add_message_bubble(drawn, Strip(PySliceFrom(line, 6)), "AGENT")
    ELSE IF StartsWith(line, STR_AssistantColon)
         THEN add_message_bubble(drawn, Strip(PySliceFrom(line, 10)), "AGENT")
    ELSE add_message_bubble(drawn, Strip(line), "SYSTEM")

RECURSIVE BubblesForLines(_, _)
BubblesForLines(drawn, lines) ==
    IF lines = <<>> THEN drawn
    ELSE BubblesForLines(BubbleForLine(drawn, Head(lines)), Tail(lines))

\* clean_conversation = clean_text_for_pdf(conversation)
\* lines = clean_conversation.split('\n')
add_conversation_modern(conv) ==
    BubblesForLines(<<>>, Split(clean_text_for_pdf(conv), 10))

(***************************************************************************)
(* Conversation specification: every transcript of up to MaxTurns turns    *)
(* over Roles x Contents, and the three calls generate_pdf_report's        *)
(* callers make on it.                                                     *)
(***************************************************************************)
Roles == { STR_user, STR_agent,
           <<116, 111, 111, 108, 67, 97, 108, 108>>,    \* "toolCall"
           <<65, 71, 69, 78, 84>> }                     \* "AGENT"

Contents == { <<104, 105>>,                             \* "hi"
              <<111, 107, 32>> \o InaudibleMarker,      \* "ok (inaudible speech)"
              <<97, 10, 98>>,                           \* "a\nb"
              <<>> }                                    \* ""

Turns == [role : Roles, content : Contents]

RECURSIVE TranscriptsUpTo(_)
TranscriptsUpTo(n) ==
    IF n = 0 THEN {<<>>}
    ELSE LET shorter == TranscriptsUpTo(n - 1)
         IN  shorter \cup
             {Append(tr, t) : tr \in {x \in shorter : Len(x) = n - 1},
                              t \in Turns}

\* The sanitizer variables while the conversation is exercised.
TextIdle ==
    /\ text = <<>>
    /\ max_length = -1
    /\ cleaned = NoText
    /\ recleaned = NoText
    /\ truncated = NoText
    /\ tpc = "idle"

InitConv ==
    /\ TextIdle
    /\ EndpointsIdle
    /\ DocIdle
    /\ transcript_object \in TranscriptsUpTo(MaxTurns)
    /\ conversation = <<>>
    /\ summary = NoSummary
    /\ bubbles = <<>>
    /\ cdone = {}

CallConcatenate ==
    /\ "concatenate" \notin cdone
    /\ conversation' = concatenate_conversation(transcript_object)
    /\ cdone' = cdone \cup {"concatenate"}
    /\ UNCHANGED <<transcript_object, summary, bubbles, textVars, epVars, docVars>>

CallSummary ==
    /\ "summary" \notin cdone
    /\ summary' = get_conversation_summary(transcript_object)
    /\ cdone' = cdone \cup {"summary"}
    /\ UNCHANGED <<transcript_object, conversation, bubbles, textVars, epVars, docVars>>

\* pdf.add_conversation_modern(concatenated_conversation)
CallAddConversation ==
    /\ "concatenate" \in cdone
    /\ "render" \notin cdone
    /\ bubbles' = add_conversation_modern(conversation)
    /\ cdone' = cdone \cup {"render"}
    /\ UNCHANGED <<transcript_object, conversation, summary, textVars, epVars, docVars>>

NextConv == CallConcatenate \/ CallSummary \/ CallAddConversation

SpecConv == InitConv /\ [][NextConv]_vars

(***************************************************************************)
(* generate_pdf_report: the scores, the metric cards, the summary box and  *)
(* the transcript bubbles, each draw of the PDF library either completing  *)
(* or raising.                                                             *)
(***************************************************************************)

\* success_score = 85 if call.call_analysis.call_successful else 45
success_score(call_successful) == IF call_successful THEN 85 ELSE 45

\* Variant: the lower bound of 20 is missing.
engagement_score_NoFloor(inaudible_speeches) == 100 - (inaudible_speeches * 30)

\* engagement_score = max(20, 100 - (inaudible_speeches * 30))
engagement_score(inaudible_speeches) ==
    Max(20, 100 - (inaudible_speeches * 30))

sentiment_map == [Positive |-> 90, Neutral |-> 70, Negative |-> 40]

\* sentiment_map.get(call.call_analysis.user_sentiment, 70)
sentiment_score(user_sentiment) ==
    IF user_sentiment \in DOMAIN sentiment_map
    THEN sentiment_map[user_sentiment]
    ELSE 70

STR_GOOD == <<71, 79, 79, 68>>      \* "GOOD"
STR_OKAY == <<79, 75, 65, 89>>      \* "OKAY"
STR_POOR == <<80, 79, 79, 82>>      \* "POOR"

\* "GOOD" if success_score >= 70 else "OKAY" if success_score >= 50 else "POOR"
success_status(score) ==
    IF score >= 70 THEN STR_GOOD ELSE IF score >= 50 THEN STR_OKAY ELSE STR_POOR

\* Variant: the engagement card is graded with the thresholds of the
\* success card.
engagement_status_SuccessThresholds(score) ==
    IF score >= 70 THEN STR_GOOD ELSE IF score >= 50 THEN STR_OKAY ELSE STR_POOR

\* "GOOD" if engagement_score >= 80 else "OKAY" if engagement_score >= 60
\* else "POOR"
engagement_status(score) ==
    IF score >= 80 THEN STR_GOOD ELSE IF score >= 60 THEN STR_OKAY ELSE STR_POOR

\* "GOOD" if sentiment_score >= 80 else "OKAY" if sentiment_score >= 60
\* else "POOR"
sentiment_status(score) ==
    IF score >= 80 THEN STR_GOOD ELSE IF score >= 60 THEN STR_OKAY ELSE STR_POOR

\* str(value) for an int value >= 0
RECURSIVE IntToStr(_)
IntToStr(n) ==
    IF n < 10 THEN <<48 + n>>
    ELSE Append(IntToStr(n \div 10), 48 + (n % 10))

STR_SuccessScore ==                 \* "Success Score"
    <<83, 117, 99, 99, 101, 115, 115, 32, 83, 99, 111, 114, 101>>
STR_Engagement == <<69, 110, 103, 97, 103, 101, 109, 101, 110, 116>>
STR_Sentiment == <<83, 101, 110, 116, 105, 109, 101, 110, 116>>

\* add_metric_card: the three texts as drawn and the colour of the card.
add_metric_card(title, value, status) ==
    LET shown == clean_text_for_pdf(status)
    IN  [title  |-> clean_text_for_pdf(title),
         value  |-> clean_text_for_pdf(IntToStr(value)),
         status |-> shown,
         colour |-> IF shown = STR_GOOD THEN "green"
                    ELSE IF shown = STR_OKAY THEN "orange"
                    ELSE "red"]

\* What the PDF library does to the draws of one document: the first and
\* the fallback multi_cell of the summary box, and, for the bubble of line
\* number line, the cell of the sender label and the first and the fallback
\* draw of the message.
NoDrawFault ==
    [summary_first |-> "ok", summary_fallback |-> "ok", line |-> 1,
     label |-> "ok", message_first |-> "ok", message_fallback |-> "ok"]

DrawOutcomes ==
    [summary_first : {"ok", "raises"}, summary_fallback : {"ok", "raises"},
     line : {1},
     label : {"ok", "raises"}, message_first : {"ok", "raises"},
     message_fallback : {"ok", "raises"}]

SummaryFallbackChars == 300     \* safe_text_length(clean_summary, 300)
MessageFallbackChars == 80      \* safe_text_length(clean_message, 80)

\* add_summary_box(text): the texts drawn in the box, and whether an
\* exception leaves the method.  safe_multi_cell cleans what it is given.
add_summary_box(summary_text, d) ==
    LET clean_summary == clean_text_for_pdf(summary_text)
    IN  IF d.summary_first = "ok"
        THEN [drawn |-> <<clean_text_for_pdf(clean_summary)>>, raised |-> FALSE]
        ELSE IF d.summary_fallback = "ok"
        THEN [drawn |-> <<clean_text_for_pdf(
                              safe_text_length(clean_summary,
                                               SummaryFallbackChars))>>,
              raised |-> FALSE]
        ELSE [drawn |-> <<>>, raised |-> TRUE]

\* The body of the loop of add_conversation_modern for line number i under
\* the draw outcomes d.  An exception of _add_message_bubble (the label
\* cell, or the fallback draw inside its except clause) is caught by the
\* loop, which logs it and goes on to the next line.
BubbleForLineDrawn(drawn, line_text, i, d) ==
    LET intended == BubbleForLine(<<>>, line_text)
        f == IF i = d.line THEN d ELSE NoDrawFault
    IN  IF intended = <<>> THEN drawn
        ELSE IF f.label = "raises" THEN drawn
        ELSE IF f.message_first = "ok"
        THEN Append(drawn,
                    [sender  |-> intended[1].sender,
                     message |-> clean_text_for_pdf(intended[1].message)])
        ELSE IF f.message_fallback = "ok"
        THEN Append(drawn,
                    [sender  |-> intended[1].sender,
                     message |-> clean_text_for_pdf(
                                     safe_text_length(intended[1].message,
                                                      MessageFallbackChars))])
        ELSE drawn

RECURSIVE BubblesForLinesDrawn(_, _, _, _)
BubblesForLinesDrawn(drawn, lines, i, d) ==
    IF i > Len(lines) THEN drawn
    ELSE BubblesForLinesDrawn(BubbleForLineDrawn(drawn, lines[i], i, d),
                              lines, i + 1, d)

\* add_conversation_modern(conversation) under the draw outcomes d.
add_conversation_drawn(conv, d) ==
    BubblesForLinesDrawn(<<>>, Split(clean_text_for_pdf(conv), 10), 1, d)

\* What pdf.output(output_path) and the file system make of the document:
\* the file is there with its bytes, there with no bytes, not there when
\* os.path.exists looks for it, or pdf.output raises.
OutputOutcomes == {"written", "empty", "absent", "raises"}

\* generate_pdf_report(call, concatenated_conversation, conversation_summary,
\* output_path), as far as the scores and the blocks above go: an exception
\* that leaves add_summary_box is logged and re-raised, and pdf.output is
\* not reached.  After pdf.output, os.path.exists(output_path) decides
\* between logger.info with the size and logger.error; an exception of
\* pdf.output is logged with logger.error and re-raised.  file is what is at
\* output_path at the end, logged the level of the last log record.
generate_pdf_document(in) ==
    LET success == success_score(in.call_successful)
        engagement == engagement_score(in.inaudible_speeches)
        sentiment == sentiment_score(in.user_sentiment)
        box == add_summary_box(in.call_summary, in.draws)
        raised == box.raised \/ in.output = "raises"
        file == IF raised \/ in.output = "absent" THEN "none"
                ELSE IF in.output = "empty" THEN "empty" ELSE "full"
    IN  [generated   |-> TRUE,
         scores      |-> [success |-> success, engagement |-> engagement,
                          sentiment |-> sentiment],
         cards       |-> << add_metric_card(STR_SuccessScore, success,
                                            success_status(success)),
                            add_metric_card(STR_Engagement, engagement,
                                            engagement_status(engagement)),
                            add_metric_card(STR_Sentiment, sentiment,
                                            sentiment_status(sentiment)) >>,
         summary_box |-> box.drawn,
         bubbles     |-> IF box.raised THEN <<>>
                         ELSE add_conversation_drawn(in.conversation, in.draws),
         raised      |-> raised,
         written     |-> file # "none",
         file        |-> file,
         logged      |-> IF raised \/ file = "none" THEN "error" ELSE "info"]

(***************************************************************************)
(* Report specification: generate_pdf_report on every combination of the   *)
(* scored fields, and on a few summaries and conversations under every     *)
(* combination of draw outcomes.                                           *)
(***************************************************************************)
Sentiments == {"Positive", "Neutral", "Negative", "Unknown", "positive"}

STR_ok == <<111, 107>>                                  \* "ok"
STR_UserHi == <<85, 115, 101, 114, 58, 32, 104, 105>>   \* "User: hi"

\* "User: " followed by 85 times "a": a message longer than 80 characters
LongLine == <<85, 115, 101, 114, 58, 32>> \o [i \in 1..85 |-> 97]

Summaries == { STR_ok, <<176, 233>> }       \* "ok", degree sign + e-acute

Conversations ==
    { <<>>, STR_UserHi,
      <<85, 115, 101, 114, 58, 32, 104, 105, 10,
        65, 103, 101, 110, 116, 58, 32, 111, 107>>,     \* "User: hi\nAgent: ok"
      LongLine }

ScoreCases ==
    [call_successful : BOOLEAN, user_sentiment : Sentiments,
     inaudible_speeches : 0..MaxInaudible,
     call_summary : {STR_ok}, conversation : {STR_UserHi},
     draws : {NoDrawFault}, output : {"written"}]

RenderCases ==
    [call_successful : {TRUE}, user_sentiment : {"Positive"},
     inaudible_speeches : {1},
     call_summary : Summaries, conversation : Conversations,
     draws : DrawOutcomes, output : {"written"}]

OutputCases ==
    [call_successful : {TRUE}, user_sentiment : {"Positive"},
     inaudible_speeches : {1},
     call_summary : {STR_ok}, conversation : {STR_UserHi},
     draws : {NoDrawFault}, output : OutputOutcomes]

InitDoc ==
    /\ TextIdle
    /\ ConvIdle
    /\ EndpointsIdle
    /\ report_in \in ScoreCases \cup RenderCases \cup OutputCases
    /\ report = NoReport
    /\ CursorIdle

CallGeneratePdfReport ==
    /\ report = NoReport
    /\ report_in # NoReport
    /\ report' = generate_pdf_document(report_in)
    /\ UNCHANGED <<report_in, cursorVars, textVars, convVars, epVars>>

NextDoc == CallGeneratePdfReport

SpecDoc == InitDoc /\ [][NextDoc]_vars

(***************************************************************************)
(* The page cursor of the transcript: _add_message_bubble on an A4 page in  *)
(* millimetres, with FPDF's default top margin of 10 and the automatic      *)
(* page break 15 above the bottom.                                         *)
(***************************************************************************)
PageHeight == 297
PageBreakTrigger == PageHeight - 15   \* set_auto_page_break(auto=True, margin=15)

\* The cursor after header(): top margin 10, ln(15), cell of height 12, ln(5).
PageTop == 10 + 15 + 12 + 5

\* The cursor after pdf.add_page() and add_section_title("Full Transcript"):
\* ln(8), cell of height 10, ln(5).
TranscriptTop == PageTop + 8 + 10 + 5

\* The page of the transcript: page 1 holds the cards, the summary and the
\* grids.
TranscriptPage == 2

add_page(c) == [page |-> c.page + 1, y |-> PageTop]

ln(c, h) == [c EXCEPT !.y = @ + h]

\* cell(w, h, txt, border, ln=1): a cell that would cross the page break
\* trigger is drawn at the top of a new page.
cell(c, h) ==
    LET at == IF c.y + h > PageBreakTrigger THEN add_page(c) ELSE c
    IN  [at EXCEPT !.y = @ + h]

\* multi_cell(w, h, txt): one cell per wrapped line.
RECURSIVE multi_cell(_, _, _)
multi_cell(c, h, wrapped) ==
    IF wrapped = 0 THEN c ELSE multi_cell(cell(c, h), h, wrapped - 1)

\* estimated_lines = max(1, len(clean_message) // words_per_line + 1)
\* msg_height = max(8, estimated_lines * 4 + 8)
msg_height(chars) == Max(8, Max(1, chars \div 60 + 1) * 4 + 8)

\* Variant: only the bottom of the sheet starts a new page.
needs_new_page_SheetBottom(at_y, height) == at_y + height > PageHeight

\* if self.get_y() + msg_height > 280
needs_new_page(at_y, height) == at_y + height > 280

\* The first statements of _add_message_bubble(message, ...), which do not
\* look at the page: "if not message.strip(): return" and
\* clean_message = safe_text_length(message, 200).
clean_message(message) ==
    [skipped |-> Strip(message) = <<>>,
     text    |-> safe_text_length(message, BubbleMaxChars)]

\* The rest of _add_message_bubble with the cursor at c, for the message
\* prepared as m, when the font metrics wrap a message of more than 80
\* characters into wrapped lines: the cursor it leaves and the background
\* rectangle it draws.
add_message_bubble_at(c, m, wrapped) ==
    IF m.skipped THEN [cursor |-> c, rect |-> NoRect]
    ELSE LET chars == Len(m.text)
             below == ln(c, 3)
             height == msg_height(chars)
             at == IF needs_new_page(below.y, height) THEN add_page(below)
                   ELSE below
             label == cell([at EXCEPT !.y = @ + 1], 3)
         IN  [cursor |-> IF chars > 80
                         THEN multi_cell(label, 4, wrapped)
                         ELSE cell(label, 4),
              rect   |-> [page |-> at.page, y |-> at.y, h |-> height,
                          chars |-> chars]]

(***************************************************************************)
(* Page specification: any sequence of bubbles, of messages of several     *)
(* lengths, drawn from the top of the transcript.                          *)
(***************************************************************************)
MaxPage == 3
MaxWrapped == 4

\* The lengths of the messages: around the multiples of 60 that the height
\* estimate counts, around the 80 that selects multi_cell, and beyond the
\* cap of 200.
MessageLengths == {0, 2, 59, 60, 80, 81, 119, 120, 179, 200, 250}

Letters(n) == [i \in 1..n |-> 97]

\* The messages of the bubbles, each one stripped, cleaned and capped once.
Messages == [n \in MessageLengths |-> clean_message(AsSeq(Letters(n)))]

InitPage ==
    /\ TextIdle
    /\ ConvIdle
    /\ EndpointsIdle
    /\ report_in = NoReport
    /\ report = NoReport
    /\ cursor = [page |-> TranscriptPage, y |-> TranscriptTop]
    /\ rect = NoRect

CallAddMessageBubble ==
    /\ cursor.page <= MaxPage
    /\ \E n \in MessageLengths, wrapped \in 1..MaxWrapped :
        LET drawn == add_message_bubble_at(cursor, Messages[n], wrapped)
        IN  /\ cursor' = drawn.cursor
            /\ rect' = IF drawn.rect = NoRect THEN rect ELSE drawn.rect
    /\ UNCHANGED <<report_in, report, textVars, convVars, epVars>>

NextPage == CallAddMessageBubble

SpecPage == InitPage /\ [][NextPage]_vars

(***************************************************************************)
(* Delivery dispatcher: send_email_with_pdf                                *)
(***************************************************************************)

\* Exception classes that the steps of a request can raise, each with the
\* classes an except clause can name to catch it.
Superclasses(exc) ==
    CASE exc = "SMTPAuthenticationError" ->
             {"SMTPAuthenticationError", "SMTPException", "OSError", "Exception"}
      [] exc = "SMTPConnectError" ->
             {"SMTPConnectError", "SMTPException", "OSError", "Exception"}
      [] exc = "SMTPException" -> {"SMTPException", "OSError", "Exception"}
      [] exc = "FileNotFoundError" -> {"FileNotFoundError", "OSError", "Exception"}
      [] exc = "PermissionError" -> {"PermissionError", "OSError", "Exception"}
      [] exc = "OSError" -> {"OSError", "Exception"}
      [] exc = "AttributeError" -> {"AttributeError", "Exception"}
      [] exc = "HTTPException" -> {"HTTPException", "Exception"}
      [] OTHER -> {exc, "Exception"}

\* Variant: the catch-all clause is missing.
SendExceptClauses_NoCatchAll ==
    <<"SMTPAuthenticationError", "SMTPConnectError", "FileNotFoundError">>

\* The except clauses of send_email_with_pdf, in order; each logs and
\* returns False.
SendExceptClauses ==
    <<"SMTPAuthenticationError", "SMTPConnectError", "FileNotFoundError",
      "Exception">>

Caught(exc, clauses) ==
    \E i \in 1..Len(clauses) : clauses[i] \in Superclasses(exc)

\* Variant: a sendmail that did not go through is issued once more.
SendSteps_SendsTwice ==
    <<"build", "connect", "starttls", "login", "sendmail", "sendmail", "quit">>

\* The statements of the try block after the os.path.exists test, in order:
\* building the message (getsize, MIME parts, open/read of the PDF),
\* smtplib.SMTP(host, port), starttls(), login(), sendmail(), quit().
SendSteps == <<"build", "connect", "starttls", "login", "sendmail", "quit">>

StepIndex(step) == CHOOSE i \in 1..Len(SendSteps) : SendSteps[i] = step

NoFault == [at |-> "none", exc |-> "none"]

\* What the file system and the mail relay can do to one delivery: nothing,
\* or an exception raised by one of the steps.
SendFaults ==
    { NoFault,
      [at |-> "build",    exc |-> "FileNotFoundError"],
      [at |-> "build",    exc |-> "PermissionError"],
      [at |-> "connect",  exc |-> "SMTPConnectError"],
      [at |-> "starttls", exc |-> "SMTPException"],
      [at |-> "login",    exc |-> "SMTPAuthenticationError"],
      [at |-> "sendmail", exc |-> "SMTPException"],
      [at |-> "quit",     exc |-> "SMTPException"] }

NoMail == [to |-> "none", sender |-> "none", server |-> "none", port |-> 0,
           password |-> "none"]

\* No connection was asked for / no login was tried.
NoSession == [server |-> "none", port |-> 0]
NoLogin == [user |-> "none", password |-> "none"]

NoSend == [called |-> FALSE, found |-> FALSE, raised |-> "none",
           returned |-> FALSE, escaped |-> "none",
           completed |-> <<>>, session |-> NoSession, login |-> NoLogin,
           connection |-> "none", mail |-> NoMail]

\* Variant: the relay settings are the ones the module was loaded with.
send_email_with_pdf_ConfigAtImport(pdf_exists, recipient_email, cfg, fault) ==
    LET raised == IF pdf_exists THEN fault.exc ELSE "none"
        completed ==
            IF ~pdf_exists THEN <<>>
            ELSE IF fault = NoFault THEN SendSteps
            ELSE SubSeq(SendSteps, 1, StepIndex(fault.at) - 1)
        done(step) == \E i \in 1..Len(completed) : completed[i] = step
        tried(step) == done(step) \/ (pdf_exists /\ fault.at = step)
        old == [smtp_server |-> "smtp.gmail.com", smtp_port |-> 587,
                email_user |-> "aensilesqla@gmail.com",
                email_password |-> "qpjntndxixwxdahn"]
    IN  [called    |-> TRUE,
         found     |-> pdf_exists,
         raised    |-> raised,
         returned  |-> pdf_exists /\ raised = "none",
         escaped   |-> "none",
         completed |-> completed,
         session   |-> IF tried("connect")
                       THEN [server |-> old.smtp_server, port |-> old.smtp_port]
                       ELSE NoSession,
         login     |-> IF tried("login")
                       THEN [user |-> old.email_user,
                             password |-> old.email_password]
                       ELSE NoLogin,
         connection |-> IF ~done("connect") THEN "none"
                        ELSE IF tried("quit") THEN "closed"
                        ELSE "open",
         mail      |-> IF done("sendmail")
                       THEN [to       |-> recipient_email,
                             sender   |-> old.email_user,
                             server   |-> old.smtp_server,
                             port     |-> old.smtp_port,
                             password |-> old.email_password]
                       ELSE NoMail]

\* send_email_with_pdf(pdf_path, recipient_email, subject, message, call_id)
\* with pdf_exists = os.path.exists(pdf_path) and cfg = EMAIL_CONFIG as read
\* during the call.  found is the result of the os.path.exists test, raised
\* the exception raised inside the try block, returned the value returned
\* (meaningless when an exception escapes), escaped the exception no except
\* clause caught, completed the steps that ran to their end, session the
\* host and port given to smtplib.SMTP(), login the credentials given to
\* login(), mail the message handed to the relay by sendmail(), and
\* connection the state of the SMTP connection at the return: server.quit()
\* is the only statement that closes it, and a quit() that raises has lost
\* the connection.
send_email_with_pdf(pdf_exists, recipient_email, cfg, fault) ==
    LET raised == IF pdf_exists THEN fault.exc ELSE "none"
        completed ==
            IF ~pdf_exists THEN <<>>
            ELSE IF fault = NoFault THEN SendSteps
            ELSE SubSeq(SendSteps, 1, StepIndex(fault.at) - 1)
        done(step) == \E i \in 1..Len(completed) : completed[i] = step
        tried(step) == done(step) \/ (pdf_exists /\ fault.at = step)
    IN  [called    |-> TRUE,
         found     |-> pdf_exists,
         raised    |-> raised,
         returned  |-> pdf_exists /\ raised = "none",
         escaped   |-> IF raised # "none" /\ ~Caught(raised, SendExceptClauses)
                       THEN raised ELSE "none",
         completed |-> completed,
         session   |-> IF tried("connect")
                       THEN [server |-> cfg.smtp_server, port |-> cfg.smtp_port]
                       ELSE NoSession,
         login     |-> IF tried("login")
                       THEN [user |-> cfg.email_user,
                             password |-> cfg.email_password]
                       ELSE NoLogin,
         connection |-> IF ~done("connect") THEN "none"
                        ELSE IF tried("quit") THEN "closed"
                        ELSE "open",
         mail      |-> IF done("sendmail")
                       THEN [to       |-> recipient_email,
                             sender   |-> cfg.email_user,
                             server   |-> cfg.smtp_server,
                             port     |-> cfg.smtp_port,
                             password |-> cfg.email_password]
                       ELSE NoMail]

(***************************************************************************)
(* generate_pdf_report and os.remove, as far as the temp directory goes    *)
(***************************************************************************)

\* Variant: the file name does not carry the call id.
PdfPath_NoCallId(call_id, second) == <<"call", second>>

\* call_report_<call_id>_<YYYYMMDD_HHMMSS>.pdf in tempfile.gettempdir()
PdfPath(call_id, second) == <<call_id, second>>

NoPath == <<"none", -1>>

\* Outcomes of generate_pdf_report: the document is written; an exception of
\* layout or writing is logged and re-raised; or the file is not there when
\* os.path.exists looks for it, which is logged only.
GenOutcomes == {"written", "raises", "absent"}

generate_pdf_report(fs, output_path, gen) ==
    CASE gen = "written" -> [files |-> fs \cup {output_path}, raised |-> FALSE]
      [] gen = "absent"  -> [files |-> fs \ {output_path},   raised |-> FALSE]
      [] OTHER           -> [files |-> fs,                   raised |-> TRUE]

\* Outcomes of os.remove on an existing file.
RemoveOutcomes == {"removed", "fails"}

\* What the environment does to one request: the outcome of the generation
\* and, when a document was written, of the delivery and of the removal.
Scenarios ==
    [gen : GenOutcomes \ {"written"}, fault : {NoFault}, rm : {"removed"}]
    \cup [gen : {"written"}, fault : SendFaults, rm : RemoveOutcomes]

\* os.remove(pdf_path) inside try/except: a failure is logged, nothing else.
os_remove(fs, pdf_path, rm) ==
    IF pdf_path \in fs /\ rm = "removed" THEN fs \ {pdf_path} ELSE fs

(***************************************************************************)
(* Endpoints                                                               *)
(***************************************************************************)
EmailingEndpoints ==
    {"auto_email_report", "email_to_address", "send_to_custom_email",
     "webhook_endpoint", "generate_and_email_report", "send_existing_pdf"}

\* if call_event.event != "call_analyzed": return Response(...)
FiltersEvent(ep) ==
    ep \in {"auto_email_report", "email_to_address", "webhook_endpoint"}

\* if not EMAIL_CONFIG.get("default_recipient"): ...
ChecksRecipient(ep) ==
    ep \in {"auto_email_report", "webhook_endpoint", "generate_and_email_report"}

\* Variant: email_to_address lacks the call_status test.
FiltersStatus_OnlyWebhook(ep) == ep \in {"webhook_endpoint"}

\* if call.call_status != "ended": return Response(...)
FiltersStatus(ep) == ep \in {"email_to_address", "webhook_endpoint"}

\* recipient_email=EMAIL_CONFIG["default_recipient"]
SendsToDefault(ep) ==
    ep \in {"auto_email_report", "webhook_endpoint", "generate_and_email_report"}

\* os.remove(pdf_path) is outside "if email_sent:" in these endpoints and
\* inside it in the others.
RemovesAlways(ep) ==
    ep \in {"email_to_address", "send_to_custom_email", "webhook_endpoint",
            "send_existing_pdf"}

\* The failure answer carries "pdf_path".
FailureCarriesPath(ep) ==
    ep \in {"auto_email_report", "generate_and_email_report",
            "send_to_custom_email"}

\* starlette's Response(status_code=200, content=<dict>) calls
\* content.encode(charset) in render(): constructing it from a dict raises.
ResponseFromDictRaises == "AttributeError"

Request(call_id, event, call_status, recipient) ==
    [call_id |-> call_id, event |-> event, call_status |-> call_status,
     recipient |-> recipient]

\* The answer of a handler whose try block raised exc: every endpoint but
\* the webhook turns it into HTTPException(500); the webhook's except clause
\* builds a Response from a dict, which raises again and leaves the handler.
ErrorAnswer(ep, exc) ==
    IF ep = "webhook_endpoint"
    THEN [status |-> 500, success |-> "absent", email_sent |-> "absent",
          pdf_path |-> NoPath, raised |-> exc,
          unhandled |-> ResponseFromDictRaises]
    ELSE [status |-> 500, success |-> "absent", email_sent |-> "absent",
          pdf_path |-> NoPath, raised |-> exc, unhandled |-> "none"]

Bool(b) == IF b THEN "true" ELSE "false"

\* The dict returned after the send, per endpoint.
SendAnswer(ep, email_sent, pdf_path) ==
    [status     |-> 200,
     success    |-> IF ep = "webhook_endpoint" THEN "true" ELSE Bool(email_sent),
     email_sent |-> IF ep \in {"webhook_endpoint", "send_to_custom_email",
                               "generate_and_email_report"}
                    THEN Bool(email_sent) ELSE "absent",
     pdf_path   |-> IF ~email_sent /\ FailureCarriesPath(ep)
                    THEN pdf_path ELSE NoPath,
     raised     |-> "none",
     unhandled  |-> "none"]

\* The calls an emailing handler makes, in the order of its statements.
PipelineCalls == <<"generate_pdf_report", "send_email_with_pdf", "os.remove">>

\* One run of an emailing handler on the temp directory fs at second now
\* under configuration cfg: the record kept in last, with the temp directory
\* it leaves behind.  remove_called tells whether os.remove(pdf_path) was
\* reached, remove_raised whether it raised (which the handler only logs),
\* steps lists the calls the handler made, in the order it made them, and
\* branch names the return or raise statement that ended the handler.
Handle(ep, req, cfg, fs, now, gen, fault, rm) ==
    LET recipient == IF SendsToDefault(ep) THEN cfg.default_recipient
                     ELSE req.recipient
        pdf_path == PdfPath(req.call_id, now)
        g == generate_pdf_report(fs, pdf_path, gen)
        snd == send_email_with_pdf(pdf_path \in g.files, recipient, cfg, fault)
        removes == snd.escaped = "none" /\ (RemovesAlways(ep) \/ snd.returned)
        before == [endpoint |-> ep, req |-> req, pdf_path |-> NoPath,
                   generated |-> FALSE, send |-> NoSend,
                   remove_called |-> FALSE, remove_raised |-> FALSE,
                   files |-> fs, steps |-> <<>>, branch |-> "none"]
    IN  IF FiltersEvent(ep) /\ req.event # "call_analyzed"
        THEN [before EXCEPT !.branch = "event_ignored"]
                 @@ [answer |-> ErrorAnswer(ep, ResponseFromDictRaises)]
        ELSE IF ChecksRecipient(ep) /\ cfg.default_recipient = ""
        THEN [before EXCEPT !.branch = "no_default_recipient"]
                 @@ [answer |->
                        ErrorAnswer(ep, IF ep = "webhook_endpoint"
                                        THEN ResponseFromDictRaises
                                        ELSE "HTTPException")]
        ELSE IF FiltersStatus(ep) /\ req.call_status # "ended"
        THEN [before EXCEPT !.branch = "status_ignored"]
                 @@ [answer |-> ErrorAnswer(ep, ResponseFromDictRaises)]
        ELSE IF g.raised
        THEN [before EXCEPT !.pdf_path = pdf_path,
                            !.steps = SubSeq(PipelineCalls, 1, 1),
                            !.branch = "generation_raised"]
                 @@ [answer |-> ErrorAnswer(ep, "Exception")]
        ELSE IF snd.escaped # "none"
        THEN [before EXCEPT !.pdf_path = pdf_path, !.generated = TRUE,
                            !.send = snd, !.files = g.files,
                            !.steps = SubSeq(PipelineCalls, 1, 2),
                            !.branch = "send_raised"]
                 @@ [answer |-> ErrorAnswer(ep, snd.escaped)]
        ELSE [before EXCEPT !.pdf_path = pdf_path, !.generated = TRUE,
                            !.branch = "answered",
                            !.send = snd, !.remove_called = removes,
                            !.remove_raised =
                                removes /\ (pdf_path \notin g.files
                                            \/ rm = "fails"),
                            !.files = IF removes
                                      THEN os_remove(g.files, pdf_path, rm)
                                      ELSE g.files,
                            !.steps = IF removes THEN PipelineCalls
                                      ELSE SubSeq(PipelineCalls, 1, 2)]
                 @@ [answer |-> SendAnswer(ep, snd.returned, pdf_path)]

CallIds == {"call_A", "call_B"}
Events == {"call_analyzed", "call_started"}
CallStatuses == {"ended", "ongoing"}
\* Variant: the empty string passes as an email address.
Emails_WithEmpty == {"aensilesqla@gmail.com", "qa@example.com", ""}

\* The values of an EmailStr parameter: pydantic refuses anything that is
\* not an address, the empty string included, before the handler runs.
Emails == {"aensilesqla@gmail.com", "qa@example.com"}

\* EMAIL_CONFIG as the module defines it.
InitialEmailConfig ==
    [smtp_server |-> "smtp.gmail.com", smtp_port |-> 587,
     email_user |-> "aensilesqla@gmail.com",
     email_password |-> "qpjntndxixwxdahn",
     default_recipient |-> "aensilesqla@gmail.com"]

\* The other relay an administrator can configure.
OtherRelay ==
    [smtp_server |-> "smtp.example.com", smtp_port |-> 465,
     email_user |-> "reports@example.com", email_password |-> "secret2"]

\* The relay the module is loaded with.
InitialRelay == [f \in DOMAIN OtherRelay |-> InitialEmailConfig[f]]

\* The settings update_email_config is called with.
Relays == {InitialRelay, OtherRelay}

Init ==
    /\ TextIdle
    /\ ConvIdle
    /\ DocIdle
    /\ EMAIL_CONFIG = InitialEmailConfig
    /\ files = {}
    /\ clock = 0
    /\ last = Idle
    /\ issued = {}

\* The recipient_email / email parameter of the endpoints that take one;
\* the other endpoints have no such parameter.
RecipientParams(ep) == IF SendsToDefault(ep) THEN {"none"} ELSE Emails

\* A request to one of the emailing endpoints, handled to its end: the
\* handlers are coroutines without an await, so a handler runs from its
\* first statement to its return before any other request is looked at.
Serve(ep) ==
    /\ last = Idle
    /\ \E call_id \in CallIds, event \in Events, call_status \in CallStatuses,
          recipient \in RecipientParams(ep), env \in Scenarios :
        LET run == Handle(ep, Request(call_id, event, call_status, recipient),
                          EMAIL_CONFIG, files, clock,
                          env.gen, env.fault, env.rm)
        IN  /\ last' = run @@ [path_shared |-> run.pdf_path # NoPath
                                                /\ call_id \in issued]
            /\ files' = run.files
            /\ issued' = IF run.pdf_path # NoPath
                          THEN issued \cup {call_id} ELSE issued
            /\ UNCHANGED <<EMAIL_CONFIG, clock, textVars, convVars, docVars>>

\* POST /generate-pdf-report: the document is generated and handed to a
\* FileResponse; the handler never removes it.  A FileResponse for a file
\* that is not there fails when the response is sent.
generate_pdf_report_endpoint ==
    /\ last = Idle
    /\ \E call_id \in CallIds, event \in Events, call_status \in CallStatuses,
          gen \in GenOutcomes :
        LET pdf_path == PdfPath(call_id, clock)
            g == generate_pdf_report(files, pdf_path, gen)
            answer ==
                IF g.raised THEN ErrorAnswer("generate_pdf_report_endpoint",
                                             "Exception")
                ELSE [status     |-> IF pdf_path \in g.files THEN 200 ELSE 500,
                      success    |-> "absent",
                      email_sent |-> "absent",
                      pdf_path   |-> pdf_path,
                      raised     |-> "none",
                      unhandled  |-> IF pdf_path \in g.files THEN "none"
                                     ELSE "RuntimeError"]
        IN  /\ last' = [endpoint      |-> "generate_pdf_report_endpoint",
                        req           |-> Request(call_id, event, call_status,
                                                  "none"),
                        pdf_path      |-> pdf_path,
                        generated     |-> ~g.raised,
                        send          |-> NoSend,
                        remove_called |-> FALSE,
                        remove_raised |-> FALSE,
                        files         |-> g.files,
                        steps         |-> SubSeq(PipelineCalls, 1, 1),
                        answer        |-> answer,
                        path_shared   |-> call_id \in issued]
            /\ files' = g.files
            /\ issued' = issued \cup {call_id}
            /\ UNCHANGED <<EMAIL_CONFIG, clock, textVars, convVars, docVars>>

\* The middleware: call_next(request) has returned, the response is logged
\* and handed to the client; the next request can be taken.
log_requests ==
    /\ last # Idle
    /\ last' = Idle
    /\ UNCHANGED <<EMAIL_CONFIG, files, clock, issued, textVars, convVars,
                   docVars>>

auto_email_report == Serve("auto_email_report")
email_to_address == Serve("email_to_address")
send_to_custom_email == Serve("send_to_custom_email")
webhook_endpoint == Serve("webhook_endpoint")
generate_and_email_report == Serve("generate_and_email_report")
send_existing_pdf == Serve("send_existing_pdf")

\* POST /update-default-recipient
update_default_recipient ==
    /\ last = Idle
    /\ \E email \in Emails :
        /\ EMAIL_CONFIG' = [EMAIL_CONFIG EXCEPT !.default_recipient = email]
        /\ last' = [endpoint |-> "update_default_recipient", email |-> email]
        /\ UNCHANGED <<files, clock, issued, textVars, convVars, docVars>>

\* POST /update-email-config
update_email_config ==
    /\ last = Idle
    /\ \E relay \in Relays :
        /\ EMAIL_CONFIG' =
               [EMAIL_CONFIG EXCEPT !.smtp_server = relay.smtp_server,
                                    !.smtp_port = relay.smtp_port,
                                    !.email_user = relay.email_user,
                                    !.email_password = relay.email_password]
        /\ last' = [endpoint |-> "update_email_config", relay |-> relay]
        /\ UNCHANGED <<files, clock, issued, textVars, convVars, docVars>>

\* Variant: the view of the configuration carries the password as well.
config_WithPassword(cfg) ==
    [smtp_server       |-> cfg.smtp_server,
     smtp_port         |-> cfg.smtp_port,
     sender_email      |-> cfg.email_user,
     email_password    |-> cfg.email_password,
     default_recipient |-> cfg.default_recipient,
     status            |-> IF cfg.email_user # "tu_email@gmail.com"
                           THEN "configured" ELSE "not_configured"]

\* The dict config that get_email_config builds from EMAIL_CONFIG and
\* returns: the password is not among its keys, and the "Not set" default of
\* .get() is not used since the key is always there.
config(cfg) ==
    [smtp_server       |-> cfg.smtp_server,
     smtp_port         |-> cfg.smtp_port,
     sender_email      |-> cfg.email_user,
     default_recipient |-> cfg.default_recipient,
     status            |-> IF cfg.email_user # "tu_email@gmail.com"
                           THEN "configured" ELSE "not_configured"]

\* GET /email-config
get_email_config ==
    /\ last = Idle
    /\ last' = [endpoint |-> "get_email_config",
                answer |-> config(EMAIL_CONFIG)]
    /\ UNCHANGED <<EMAIL_CONFIG, files, clock, issued, textVars, convVars,
                   docVars>>

\* Wall-clock time passes between two requests: the next second begins, in
\* which no path has been given out yet.
Tick ==
    /\ last = Idle
    /\ clock < MaxClock
    /\ clock' = clock + 1
    /\ issued' = {}
    /\ UNCHANGED <<EMAIL_CONFIG, files, last, textVars, convVars, docVars>>

Next ==
    \/ auto_email_report
    \/ email_to_address
    \/ send_to_custom_email
    \/ webhook_endpoint
    \/ generate_and_email_report
    \/ send_existing_pdf
    \/ generate_pdf_report_endpoint
    \/ update_default_recipient
    \/ update_email_config
    \/ get_email_config
    \/ log_requests
    \/ Tick

Spec == Init /\ [][Next]_vars

(***************************************************************************)
(* The handlers that test the default recipient, in a deployment whose     *)
(* EMAIL_CONFIG literal (lines 146-152) was edited to leave                *)
(* default_recipient empty, next to the deployment of the repository.      *)
(***************************************************************************)
UnconfiguredEmailConfig ==
    [InitialEmailConfig EXCEPT !.default_recipient = ""]

InitUnconfigured ==
    /\ TextIdle
    /\ ConvIdle
    /\ DocIdle
    /\ EMAIL_CONFIG \in {InitialEmailConfig, UnconfiguredEmailConfig}
    /\ files = {}
    /\ clock = 0
    /\ last = Idle
    /\ issued = {}

NextUnconfigured ==
    \/ auto_email_report
    \/ generate_and_email_report
    \/ webhook_endpoint
    \/ update_default_recipient
    \/ log_requests

SpecUnconfigured == InitUnconfigured /\ [][NextUnconfigured]_vars

(***************************************************************************)
(* Properties of the sanitizer.                                            *)
(***************************************************************************)
AllowedChar(c) == (32 <= c /\ c <= 126) \/ c \in {10, 13, 9}

HasChar(s, c) == \E i \in 1..Len(s) : s[i] = c

\* C4: every character of clean_text_for_pdf(T) has a codepoint in 32..126
\* or is newline, carriage return or tab, whatever T contains (table
\* replacements and NFD decomposition included).
C4_OnlyAllowedCodepoints ==
    tpc # "input" => \A i \in 1..Len(cleaned) : AllowedChar(cleaned[i])

\* C4 witness: a text with a table character, a decomposing character and a
\* character outside the table has been cleaned to a non-empty result.
C4_Witness ==
    /\ tpc = "cleaned"
    /\ HasChar(text, 176) /\ HasChar(text, 233) /\ HasChar(text, 20013)
    /\ Len(cleaned) > Len(text)

\* C5: clean_text_for_pdf is idempotent, and the empty text is cleaned to the
\* empty text.
C5_Idempotent ==
    /\ tpc = "recleaned" => recleaned = cleaned
    /\ (tpc # "input" /\ text = <<>>) => cleaned = <<>>

\* C5 witness: the second call has been made on a result that differs from
\* the input and still holds whitespace.
C5_Witness ==
    /\ tpc = "recleaned"
    /\ cleaned # text
    /\ HasChar(cleaned, 32)
    /\ recleaned = cleaned

\* C6: safe_text_length(T, L) has length <= L for every L >= 0, the lengths
\* below the 3-character marker included.
C6_LengthAtMostL ==
    tpc = "truncated" => Len(truncated) <= max_length

\* The first k characters of s; none when k <= 0.
FirstChars(s, k) == SubSeq(s, 1, Min(Max(k, 0), Len(s)))

\* C7: when the cleaned text fits in L it is returned unchanged; otherwise
\* the result is the first L-3 characters of the cleaned text followed by
\* "...".
C7_TruncationShape ==
    tpc = "truncated" =>
        IF Len(cleaned) <= max_length
        THEN truncated = cleaned
        ELSE truncated = FirstChars(cleaned, max_length - 3) \o Ellipsis

(***************************************************************************)
(* Properties of the conversation normalizer and the transcript layout.    *)
(***************************************************************************)
NTurns == Len(transcript_object)

\* Length of the entry "<Role>: <content>" of turn i.
EntryLen(i) == Len(transcript_object[i].role) + 2 + Len(transcript_object[i].content)

\* Number of characters of the output that precede the entry of turn i when
\* the entries are separated by exactly one character.
RECURSIVE EntryOffset(_)
EntryOffset(i) == IF i = 1 THEN 0 ELSE EntryOffset(i - 1) + EntryLen(i - 1) + 1

Segment(s, off, n) == SubSeq(s, off + 1, off + n)

\* The role label found in the output at the place of turn i.
LabelOf(i) == Segment(conversation, EntryOffset(i), Len(transcript_object[i].role))

\* C3: for a transcript of N turns with non-empty content,
\* concatenate_conversation followed by add_conversation_modern draws exactly
\* N bubbles, one per transcript line, in turn order: bubble i carries the
\* text of turn i.
C3_OneBubblePerTurn ==
    ( /\ "render" \in cdone
      /\ \A i \in 1..NTurns :
            /\ transcript_object[i].content # <<>>
            /\ ~HasChar(transcript_object[i].content, 10) )
    => /\ Len(bubbles) = NTurns
       /\ \A i \in 1..NTurns :
            Contains(bubbles[i].message,
                     clean_text_for_pdf(transcript_object[i].content))

\* C8: the output holds one entry "<Role>: <content>" per turn, in input
\* order, consecutive entries separated by exactly one newline and nothing
\* else; no turn is filtered out whatever its role; [] gives "" and
\* [{user, "hi"}] gives "User: hi".
C8_OneEntryPerTurn ==
    "concatenate" \in cdone =>
        /\ Len(conversation) =
               IF NTurns = 0 THEN 0 ELSE EntryOffset(NTurns) + EntryLen(NTurns)
        /\ \A i \in 1..NTurns :
            LET t == transcript_object[i]
                off == EntryOffset(i)
            IN  /\ LowerAll(LabelOf(i)) = LowerAll(t.role)
                /\ LabelOf(i)[1] = ToUpper(t.role[1])
                /\ Segment(conversation, off + Len(t.role), 2) = ColonSpace
                /\ Segment(conversation, off + Len(t.role) + 2, Len(t.content))
                       = t.content
                /\ i < NTurns => conversation[off + EntryLen(i) + 1] = 10
        /\ transcript_object = <<>> => conversation = <<>>
        /\ transcript_object = <<[role |-> STR_user, content |-> <<104, 105>>]>>
               => conversation = <<85, 115, 101, 114, 58, 32, 104, 105>>

\* C8 witness: two turns, one of them with a non-standard role, have been
\* concatenated.
C8_Witness ==
    /\ "concatenate" \in cdone
    /\ NTurns = 2
    /\ transcript_object[1].role = STR_user
    /\ transcript_object[2].role \notin {STR_user, STR_agent}
    /\ HasChar(conversation, 10)

\* C9 as stated: the label is the role with its first character capitalized
\* and every other character unchanged.
C9_RestUnchanged ==
    "concatenate" \in cdone =>
        \A i \in 1..NTurns :
            LabelOf(i) = <<ToUpper(transcript_object[i].role[1])>>
                             \o Tail(transcript_object[i].role)

UserTurns == {i \in 1..NTurns : transcript_object[i].role = STR_user}
AgentTurns == {i \in 1..NTurns : transcript_object[i].role = STR_agent}

\* C10: total_exchanges counts every turn, user_messages / agent_messages the
\* turns whose role is exactly "user" / "agent", inaudible_speeches the user
\* turns whose content contains the marker; hence user + agent <= total and
\* inaudible <= user.
C10_SummaryCounts ==
    "summary" \in cdone =>
        /\ summary.total_exchanges = NTurns
        /\ summary.user_messages = Cardinality(UserTurns)
        /\ summary.agent_messages = Cardinality(AgentTurns)
        /\ summary.inaudible_speeches =
               Cardinality({i \in UserTurns :
                   Contains(transcript_object[i].content, InaudibleMarker)})
        /\ summary.user_messages + summary.agent_messages
               <= summary.total_exchanges
        /\ summary.inaudible_speeches <= summary.user_messages

\* C10 witness: a summary of a transcript in which a user turn and a turn of
\* another role both carry the marker, and not every turn is user or agent.
C10_Witness ==
    /\ "summary" \in cdone
    /\ summary.inaudible_speeches = 1
    /\ \E i \in 1..NTurns :
        /\ i \notin UserTurns
        /\ Contains(transcript_object[i].content, InaudibleMarker)
    /\ summary.user_messages + summary.agent_messages < summary.total_exchanges

(***************************************************************************)
(* Properties of the delivery dispatcher                                   *)
(***************************************************************************)
Range(seq) == {seq[i] : i \in 1..Len(seq)}

\* The handler of the last request called send_email_with_pdf.
SendCalled == last.endpoint \in EmailingEndpoints /\ last.send.called

\* C1: send_email_with_pdf returns True only when connect, starttls, login
\* and sendmail all completed without error; whenever the PDF is missing or
\* any step raises it returns False; and no exception escapes to the caller.
C1_TrueOnlyOnFullSuccess ==
    SendCalled =>
        /\ last.send.escaped = "none"
        /\ last.send.returned =>
               /\ {"connect", "starttls", "login", "sendmail"}
                      \subseteq Range(last.send.completed)
               /\ last.send.found
               /\ last.send.raised = "none"
        /\ (~last.send.found \/ last.send.raised # "none") => ~last.send.returned

\* An authentication failure after a successful connect and starttls.
C1_Witness ==
    /\ SendCalled
    /\ last.send.raised = "SMTPAuthenticationError"
    /\ last.send.completed = <<"build", "connect", "starttls">>
    /\ ~last.send.returned

\* The handler of the last request returned its dict after the send.
ReturnedAfterSend == SendCalled /\ last.answer.status = 200

\* C2: in each of the six emailing endpoints, when the handler returns after
\* a successful delivery the temporary PDF no longer exists at its path, and
\* when it returns after a failed delivery of a PDF that was written the
\* temporary PDF still exists at its path (os.remove itself not failing).
C2_DeletedOnlyAfterSuccess ==
    (ReturnedAfterSend /\ last.send.found /\ ~last.remove_raised) =>
        /\ last.send.returned => last.pdf_path \notin files
        /\ ~last.send.returned => last.pdf_path \in files

(***************************************************************************)
(* Properties of the scores and of the report document                     *)
(***************************************************************************)

\* C11: success_score is 85 for a successful call and 45 otherwise;
\* engagement_score is max(20, 100 - 30 * inaudible_speeches), lies in
\* 20..100 and does not grow with the inaudible count; sentiment_score is
\* 90 / 70 / 40 for "Positive" / "Neutral" / "Negative" and 70 for any other
\* string.
C11_Scores ==
    report.generated =>
        LET n == report_in.inaudible_speeches
            linear == 100 - 30 * n
        IN  /\ report.scores.success \in {45, 85}
            /\ report.scores.success = 85 <=> report_in.call_successful
            /\ report.scores.engagement \in 20..100
            /\ report.scores.engagement = IF linear >= 20 THEN linear ELSE 20
            /\ \A m \in 0..n :
                   engagement_score(m) >= report.scores.engagement
            /\ report.scores.sentiment =
                   CASE report_in.user_sentiment = "Positive" -> 90
                     [] report_in.user_sentiment = "Neutral"  -> 70
                     [] report_in.user_sentiment = "Negative" -> 40
                     [] OTHER -> 70

\* C11 witness: a failed call with so many inaudible turns that the floor of
\* 20 applies, and a sentiment string that is none of the three known ones.
C11_Witness ==
    /\ report.generated
    /\ ~report_in.call_successful
    /\ 100 - 30 * report_in.inaudible_speeches < 20
    /\ report.scores.engagement = 20
    /\ report_in.user_sentiment = "positive"
    /\ report.scores.sentiment = 70

\* GOOD from the good threshold on, OKAY from the okay threshold on, POOR
\* below.
Tier(score, good, okay) ==
    IF score >= good THEN STR_GOOD ELSE IF score >= okay THEN STR_OKAY
    ELSE STR_POOR

\* C12: the status shown on each card is the tier of its score, with the
\* thresholds (70, 50) for success and (80, 60) for engagement and
\* sentiment; a successful call with one inaudible user turn and sentiment
\* "Positive" shows 85/GOOD, 70/OKAY, 90/GOOD.
C12_Tiers ==
    report.generated =>
        /\ report.cards[1].status = Tier(report.scores.success, 70, 50)
        /\ report.cards[2].status = Tier(report.scores.engagement, 80, 60)
        /\ report.cards[3].status = Tier(report.scores.sentiment, 80, 60)
        /\ \A i \in 1..3 : report.cards[i].colour =
               IF report.cards[i].status = STR_GOOD THEN "green"
               ELSE IF report.cards[i].status = STR_OKAY THEN "orange"
               ELSE "red"
        /\ ( /\ report_in.call_successful
             /\ report_in.inaudible_speeches = 1
             /\ report_in.user_sentiment = "Positive" )
           => /\ report.cards[1].value = <<56, 53>>         \* "85"
              /\ report.cards[1].status = STR_GOOD
              /\ report.cards[2].value = <<55, 48>>         \* "70"
              /\ report.cards[2].status = STR_OKAY
              /\ report.cards[3].value = <<57, 48>>         \* "90"
              /\ report.cards[3].status = STR_GOOD

\* C12 witness: the scenario of the claim has been rendered.
C12_Witness ==
    /\ report.generated
    /\ report_in.call_successful
    /\ report_in.inaudible_speeches = 1
    /\ report_in.user_sentiment = "Positive"
    /\ report.cards[2].value = <<55, 48>>
    /\ report.cards[2].colour = "orange"

\* Some draw of the summary box / of the message bubble raises.
SummaryDrawRaises ==
    "raises" \in {report_in.draws.summary_first,
                  report_in.draws.summary_fallback}

BubbleDrawRaises ==
    "raises" \in {report_in.draws.label, report_in.draws.message_first,
                  report_in.draws.message_fallback}

\* C13: when the rendering failures are confined to one block (the summary
\* box or one message bubble), the failure of its fallback draw included,
\* and pdf.output does its work, generate_pdf_report does not raise, writes
\* the document, and the block's content is drawn (in full or truncated)
\* rather than dropped.
C13_BlockFailureNeverAborts ==
    (report.generated /\ report_in.output = "written"
        /\ ~(SummaryDrawRaises /\ BubbleDrawRaises)) =>
        /\ ~report.raised
        /\ report.written
        /\ Len(report.summary_box) = 1
        /\ Len(report.bubbles) =
               Len(add_conversation_modern(report_in.conversation))

(***************************************************************************)
(* Properties of the endpoints                                             *)
(***************************************************************************)

\* The last request was made to one of the endpoints eps.
Served(eps) == last.endpoint \in eps

\* C14: in webhook, auto-email-report and email-to-address a request whose
\* event is not "call_analyzed" causes no PDF to be generated and no email
\* to be sent; in webhook and email-to-address the same holds for a request
\* whose call_status is not "ended".
C14_FilteredRequestsDoNothing ==
    ( \/ /\ Served({"webhook_endpoint", "auto_email_report",
                    "email_to_address"})
         /\ last.req.event # "call_analyzed"
      \/ /\ Served({"webhook_endpoint", "email_to_address"})
         /\ last.req.call_status # "ended" )
    => /\ last.pdf_path = NoPath
       /\ ~last.generated
       /\ ~last.send.called
       /\ ~last.remove_called

\* C14 witness: email-to-address has answered a "call_analyzed" request for
\* a call that is still ongoing.
C14_Witness ==
    /\ Served({"email_to_address"})
    /\ last.req.event = "call_analyzed"
    /\ last.req.call_status = "ongoing"
    /\ ~last.generated

\* C15: in webhook, auto-email-report and email-to-address a request whose
\* event is not "call_analyzed" is answered with HTTP status 200.
C15_IgnoredEventAnswered200 ==
    ( /\ Served({"webhook_endpoint", "auto_email_report", "email_to_address"})
      /\ last.req.event # "call_analyzed" )
    => last.answer.status = 200

\* C16: the webhook endpoint never fails: every request is answered with
\* status 200 and no exception leaves the handler.
C16_WebhookAlways200 ==
    Served({"webhook_endpoint"}) =>
        /\ last.answer.status = 200
        /\ last.answer.unhandled = "none"

\* The endpoints that generate a report at a temporary path.
ReportEndpoints == EmailingEndpoints \cup {"generate_pdf_report_endpoint"}

\* C17: every invocation of a report-generating endpoint obtains a path
\* that no other invocation uses, two invocations for the same call_id
\* within the same second included.
C17_PathPerInvocation ==
    (Served(ReportEndpoints) /\ last.pdf_path # NoPath) => ~last.path_shared

\* C18: an invocation leaves the temporary files of the other call ids as
\* they are (it neither creates, overwrites nor deletes them), and what it
\* sends and answers is what it sends and answers when run on its own in an
\* empty temp directory.
C18_DistinctCallsIndependent ==
    [][ (last = Idle /\ last'.endpoint \in ReportEndpoints) =>
            /\ \A p \in files \cup files' :
                   p[1] # last'.req.call_id => (p \in files <=> p \in files')
            /\ last'.pdf_path # NoPath => last'.pdf_path[1] = last'.req.call_id
            /\ last'.endpoint \in EmailingEndpoints =>
                   \E env \in {e \in Scenarios :
                                   /\ e.fault.exc = last'.send.raised
                                   /\ last'.send.found => e.gen = "written"} :
                       LET alone == Handle(last'.endpoint, last'.req,
                                           EMAIL_CONFIG, {}, clock,
                                           env.gen, env.fault, env.rm)
                       IN  /\ alone.send = last'.send
                           /\ alone.answer = last'.answer
                           /\ alone.pdf_path = last'.pdf_path
                           /\ alone.remove_raised = last'.remove_raised
      ]_vars

\* C18 witness: a report for call_B has been delivered while a report of
\* call_A, kept after a failed delivery, is in the temp directory.
C18_Witness ==
    /\ Served(EmailingEndpoints)
    /\ last.req.call_id = "call_B"
    /\ last.send.returned
    /\ \E p \in files : p[1] = "call_A"

\* C19: an update is in EMAIL_CONFIG when its handler returns, nothing but
\* an update changes EMAIL_CONFIG, and every delivery uses the values
\* EMAIL_CONFIG holds when it runs: the default recipient in webhook,
\* auto-email-report and generate-and-email-report, and host, port, user and
\* password in send_email_with_pdf.
C19_ConfigReadAtCallTime ==
    /\ [](Served({"update_default_recipient"}) =>
              EMAIL_CONFIG.default_recipient = last.email)
    /\ [](Served({"update_email_config"}) =>
              /\ EMAIL_CONFIG.smtp_server = last.relay.smtp_server
              /\ EMAIL_CONFIG.smtp_port = last.relay.smtp_port
              /\ EMAIL_CONFIG.email_user = last.relay.email_user
              /\ EMAIL_CONFIG.email_password = last.relay.email_password)
    /\ [][EMAIL_CONFIG' # EMAIL_CONFIG =>
              last'.endpoint \in {"update_default_recipient",
                                  "update_email_config"}]_vars
    /\ [](SendCalled =>
              /\ last.send.session # NoSession =>
                     /\ last.send.session.server = EMAIL_CONFIG.smtp_server
                     /\ last.send.session.port = EMAIL_CONFIG.smtp_port
              /\ last.send.login # NoLogin =>
                     /\ last.send.login.user = EMAIL_CONFIG.email_user
                     /\ last.send.login.password = EMAIL_CONFIG.email_password
              /\ (last.send.mail # NoMail /\ SendsToDefault(last.endpoint)) =>
                     last.send.mail.to = EMAIL_CONFIG.default_recipient)

\* C19 witness: after both updates, a webhook delivery has gone to the new
\* recipient through the new relay.
C19_Witness ==
    /\ Served({"webhook_endpoint"})
    /\ last.send.returned
    /\ last.send.mail.to = "qa@example.com"
    /\ last.send.session.server = OtherRelay.smtp_server
    /\ last.send.login.user = OtherRelay.email_user

CountIn(seq, x) == Cardinality({i \in 1..Len(seq) : seq[i] = x})

IsPrefix(a, b) == Len(a) <= Len(b) /\ a = SubSeq(b, 1, Len(a))

\* C21: an emailing handler calls generate_pdf_report, then
\* send_email_with_pdf, then os.remove, each at most once and in this order;
\* send_email_with_pdf is called only if the generation did not raise; one
\* delivery opens at most one connection and issues at most one sendmail,
\* to the one recipient of the request; a False result is not retried.
C21_PipelineOnceInOrder ==
    Served(EmailingEndpoints) =>
        /\ IsPrefix(last.steps, PipelineCalls)
        /\ last.send.called <=> Len(last.steps) >= 2
        /\ last.send.called => last.generated
        /\ last.remove_called <=> Len(last.steps) = 3
        /\ \A step \in Range(SendSteps) :
               CountIn(last.send.completed, step) <= 1
        /\ last.send.mail # NoMail =>
               /\ CountIn(last.send.completed, "connect") = 1
               /\ last.send.mail.to =
                      IF SendsToDefault(last.endpoint)
                      THEN EMAIL_CONFIG.default_recipient
                      ELSE last.req.recipient
        /\ (last.send.called /\ ~last.send.returned) =>
               CountIn(last.steps, "send_email_with_pdf") = 1

\* C21 witness: a delivery failed after its sendmail was issued (quit
\* raised), the handler went on to the removal and did not send again.
C21_Witness ==
    /\ Served(EmailingEndpoints)
    /\ last.steps = PipelineCalls
    /\ ~last.send.returned
    /\ last.send.mail # NoMail

\* C22: an emailing handler that generated its document and returned an
\* answer has called os.remove on both the delivery-success and the
\* delivery-failure path, and the file is gone unless the removal itself
\* failed; a failed removal leaves the answer what it would have been.
C22_TempFileRemovedOnBothPaths ==
    (Served(EmailingEndpoints) /\ last.send.called
        /\ last.answer.raised = "none") =>
        /\ last.remove_called
        /\ ~last.remove_raised => last.pdf_path \notin files
        /\ last.answer = SendAnswer(last.endpoint, last.send.returned,
                                    last.pdf_path)

(***************************************************************************)
(* Properties of the configuration endpoints                               *)
(***************************************************************************)
Passwords == {r.email_password : r \in Relays} \cup {"rotated"}

\* C23: the answer of GET /email-config is the same in every two
\* configurations that differ only in email_password, whatever updates came
\* before: replacing the password of the current configuration by any other
\* one gives the answer that was returned.
C23_AnswerIndependentOfPassword ==
    Served({"get_email_config"}) =>
        \A pw \in Passwords :
            config([EMAIL_CONFIG EXCEPT !.email_password = pw]) = last.answer

\* C23 witness: the configuration is asked for after the relay, its
\* password included, and the default recipient were updated.
C23_Witness ==
    /\ Served({"get_email_config"})
    /\ EMAIL_CONFIG.email_password = OtherRelay.email_password
    /\ last.answer.smtp_server = OtherRelay.smtp_server
    /\ last.answer.default_recipient = "qa@example.com"

(***************************************************************************)
(* Properties of the classification of the transcript lines                *)
(***************************************************************************)
\* The length of the role marker a line starts with, 0 when it has none.
MarkerLen(line) ==
    IF StartsWith(line, STR_UserColon) THEN Len(STR_UserColon)
    ELSE IF StartsWith(line, STR_AgentColon) THEN Len(STR_AgentColon)
    ELSE IF StartsWith(line, STR_AssistantColon) THEN Len(STR_AssistantColon)
    ELSE 0

SenderOf(line) ==
    IF StartsWith(line, STR_UserColon) THEN "USER"
    ELSE IF StartsWith(line, STR_AgentColon)
            \/ StartsWith(line, STR_AssistantColon) THEN "AGENT"
    ELSE "SYSTEM"

\* The text of a line without its marker and the blanks around it.
TextOf(line) == Strip(SubSeq(line, MarkerLen(line) + 1, Len(line)))

\* The lines, out of lines, that carry a text.
RECURSIVE WithText(_)
WithText(lines) ==
    IF lines = <<>> THEN <<>>
    ELSE IF Strip(Head(lines)) # <<>> /\ TextOf(Head(lines)) # <<>>
         THEN <<Head(lines)>> \o WithText(Tail(lines))
    ELSE WithText(Tail(lines))

\* The lines of the conversation that carry a text.
DrawnLines(conv) == WithText(Split(conv, 10))

\* C25: every non-empty line of the conversation is drawn as one bubble,
\* USER for a line starting with "User:", AGENT for "Agent:" and
\* "Assistant:", SYSTEM for any other line, with the marker stripped from
\* the drawn text; a line that is empty after stripping draws no bubble.
C25_LinesClassifiedByMarker ==
    "render" \in cdone =>
        LET lines == DrawnLines(conversation)
        IN  /\ Len(bubbles) = Len(lines)
            /\ \A i \in 1..Len(lines) :
                   /\ bubbles[i].sender = SenderOf(lines[i])
                   /\ bubbles[i].message =
                          safe_text_length(TextOf(lines[i]), BubbleMaxChars)

(***************************************************************************)
(* Properties of the check of the written document                         *)
(***************************************************************************)
\* C26: generate_pdf_report raises exactly when the layout or pdf.output
\* raised, having logged the error; when nothing raised it returns normally,
\* logging an error if the file at output_path is missing or empty and the
\* success record otherwise.
C26_OutputVerified ==
    report.generated =>
        /\ report.raised <=>
               \/ report_in.draws.summary_first = "raises"
                  /\ report_in.draws.summary_fallback = "raises"
               \/ report_in.output = "raises"
        /\ report.raised => report.logged = "error"
        /\ ~report.raised => (report.logged = "error" <=> report.file # "full")

C28_DefaultRecipientAlwaysSet ==
    /\ EMAIL_CONFIG.default_recipient # ""
    /\ Served(EmailingEndpoints) => last.branch # "no_default_recipient"

\* C28 witness: the default recipient was replaced and a report went out to
\* the new one.
C28_Witness ==
    /\ Served({"webhook_endpoint", "auto_email_report",
               "generate_and_email_report"})
    /\ EMAIL_CONFIG.default_recipient # InitialEmailConfig.default_recipient
    /\ last.branch = "answered"
    /\ last.send.returned

\* C29: whenever the failure answer of auto-email-report,
\* generate-and-email-report or send-to-custom-email carries a pdf_path, the
\* file at that path exists when the answer is returned.
C29_ReturnedPathExists ==
    (Served(EmailingEndpoints) /\ last.answer.pdf_path # NoPath) =>
        last.answer.pdf_path \in files

(***************************************************************************)
(* Properties of the page break before a bubble                            *)
(***************************************************************************)
\* C24: the background rectangle of every bubble ends at or above y = 280
\* on its page, whatever bubbles came before it, and its height is
\* max(8, 4 * max(1, len // 60 + 1) + 8) for a message of at most 200
\* characters: the comparison with 280 runs before every bubble and starts
\* a new page when the bubble would go beyond.
C24_BubbleAbove280 ==
    rect # NoRect =>
        /\ rect.y + rect.h <= 280
        /\ rect.chars <= 200
        /\ rect.h = Max(8, 4 * Max(1, rect.chars \div 60 + 1) + 8)
        /\ rect.page \in {cursor.page, cursor.page - 1}

\* C24 witness: a bubble of 200 characters did not fit under the bubbles
\* before it and was drawn at the top of a new page.
C24_Witness ==
    /\ rect.page > TranscriptPage
    /\ rect.y = PageTop
    /\ rect.chars = 200
    /\ rect.h = 24

=============================================================================
